---- MODULE Spec2Model ----
(***************************************************************************)
(* Dancing Links (Algorithm X), package dlx (src/dlx.go).                  *)
(*                                                                         *)
(* The heap of Elements is a family of functions indexed by element id:    *)
(* id H (= 0) is the master sentinel m.h, ids 1..n are the elements        *)
(* allocated by PushHead and PushItem, in allocation order.  Nil is the    *)
(* nil pointer.  The operations of the package are operators on a record   *)
(* M holding the whole Matrix (heap, m.o, m.solutions); the actions apply  *)
(* them to the state variables.                                            *)
(***************************************************************************)
EXTENDS Integers, Sequences, FiniteSets, TLC

\* ---------------------------------------------------------------- bounds
\* Columns plus rows of a matrix built in order; elements (headers plus
\* items) of a matrix built in any order; m.solutions is allowed to grow to
\* this length before Solve is no longer called.
MaxDim == 5
MaxFree == 5
MaxSolutions == 2

\* The caller's column names: the i-th PushHead call passes ColumnNames[i].
ColumnNames == <<"A", "B", "C", "D", "E", "F", "G", "H">>

\* ------------------------------------------------------------ the heap
\* &m.h: the sentinel element embedded in the Matrix (also the address of m).
H == 0
\* The nil pointer.
Nil == -1

VARIABLES
    n,          \* number of elements allocated by PushHead / PushItem
    up, down, left, right, column,   \* Element.up, .down, .left, .right, .column
    matrix,     \* Element.matrix (H: the matrix, Nil: nil)
    Value,      \* Element.Value
    o,          \* Matrix.o
    solutions,  \* Matrix.solutions
    err,        \* "ok", or how the running call ended: "panic", "hang"
    stack,      \* the call stack of search: one frame per active search(k)
    mode,       \* "idle", or "solving": inside Solve
    ret,        \* the value returned by the last Solve, while unmodified
    calls,      \* Solve calls since the matrix was last modified (0, 1, 2+)
    pre,        \* the mesh as it was when the running / last Solve was called
    prevRet,    \* the value returned by the Solve before the last one
    caller,     \* how the caller builds the matrix: "ordered" or "any"
    tick        \* flips with every step of a running Solve

vars == <<n, up, down, left, right, column, matrix, Value, o, solutions, err,
          stack, mode, ret, calls, pre, prevRet, caller, tick>>

\* Element.Value: nil, true (an item) or a Head{name, size}.
NilValue == [kind |-> "nil", name |-> "", size |-> 0]
TrueValue == [kind |-> "bool", name |-> "", size |-> 0]
HeadValue(nm, sz) == [kind |-> "Head", name |-> nm, size |-> sz]

\* uint64 arithmetic on Head.size.  A size is kept as the signed reading of
\* its 64 bits (2^64-1 is -1), so +1 and -1 wrap as in Go; the comparison is
\* the unsigned one.
MaxUint64 == -1
U64Inc(s) == s + 1
U64Dec(s) == s - 1
\* The unsigned comparison a <= b.
U64LessEq(a, b) == IF (a < 0) = (b < 0) THEN a <= b ELSE b < 0
U64Less(a, b) == IF (a < 0) = (b < 0) THEN a < b ELSE b < 0

\* The Matrix and its elements as one value.
Cur == [n |-> n, up |-> up, down |-> down, left |-> left, right |-> right,
        column |-> column, matrix |-> matrix, Value |-> Value,
        o |-> o, solutions |-> solutions, err |-> err]

Store(M) ==
    /\ n' = M.n
    /\ up' = M.up
    /\ down' = M.down
    /\ left' = M.left
    /\ right' = M.right
    /\ column' = M.column
    /\ matrix' = M.matrix
    /\ Value' = M.Value
    /\ o' = M.o
    /\ solutions' = M.solutions
    /\ err' = M.err

\* A nil dereference or failed type assertion (a Go panic); a loop that did
\* not end within the fuel it was given.
Panic(M) == [M EXCEPT !.err = "panic"]
Hang(M) == [M EXCEPT !.err = "hang"]

\* The zero value of Matrix: every field of m.h is nil, m.o and m.solutions nil.
ZeroMatrix ==
    [n |-> 0,
     up |-> (H :> Nil), down |-> (H :> Nil), left |-> (H :> Nil),
     right |-> (H :> Nil), column |-> (H :> Nil), matrix |-> (H :> Nil),
     Value |-> (H :> NilValue), o |-> <<>>, solutions |-> <<>>, err |-> "ok"]

\* Matrix.Init
MatrixInit(M) ==
    [M EXCEPT !.up[H] = H, !.down[H] = H, !.left[H] = H, !.right[H] = H,
              !.column[H] = H, !.o = <<>>, !.solutions = <<>>]

\* New
New == MatrixInit(ZeroMatrix)

\* Matrix.Head
MatrixHead(M) == IF M.right[H] = H THEN Nil ELSE M.right[H]

\* Matrix.lazyInit
lazyInit(M) == IF M.right[H] = Nil THEN MatrixInit(M) ELSE M

\* &Element{Value: v}: a fresh element, every pointer nil.
NewElement(M, v) ==
    LET e == M.n + 1
    IN [M EXCEPT !.n = e,
                 !.up = M.up @@ (e :> Nil), !.down = M.down @@ (e :> Nil),
                 !.left = M.left @@ (e :> Nil), !.right = M.right @@ (e :> Nil),
                 !.column = M.column @@ (e :> Nil),
                 !.matrix = M.matrix @@ (e :> Nil),
                 !.Value = M.Value @@ (e :> v)]

\* Matrix.insertHead(e, at)
insertHead(M, e, at) ==
    LET nx == M.right[at]
        M1 == [M EXCEPT !.right[at] = e]
        M2 == [M1 EXCEPT !.left[e] = at]
        M3 == [M2 EXCEPT !.right[e] = nx]
        M4 == [M3 EXCEPT !.left[nx] = e]
    IN [M4 EXCEPT !.up[e] = e, !.down[e] = e, !.matrix[e] = H, !.column[e] = e]

\* Matrix.insertHeadValue(v, at)
insertHeadValue(M, v, at) == insertHead(NewElement(M, v), M.n + 1, at)

\* PushHead inserting right of the sentinel (at the front of the header ring).
PushHeadFront(M, name) ==
    LET M1 == lazyInit(M)
    IN insertHeadValue(M1, HeadValue(name, 0), H)

\* Matrix.PushHead(name)
PushHead(M, name) ==
    LET M1 == lazyInit(M)
    IN insertHeadValue(M1, HeadValue(name, 0), M1.left[H])

\* Matrix.insertItem(e, atR, atC)
insertItem(M, e, atR, atC) ==
    LET Mr == IF atR = Nil
              THEN [M EXCEPT !.left[e] = e, !.right[e] = e]
              ELSE LET nx == M.right[atR]
                       M1 == [M EXCEPT !.right[atR] = e]
                       M2 == [M1 EXCEPT !.left[e] = atR]
                       M3 == [M2 EXCEPT !.right[e] = nx]
                   IN [M3 EXCEPT !.left[nx] = e]
        ch == Mr.down[atC]
        M5 == [Mr EXCEPT !.down[atC] = e]
        M6 == [M5 EXCEPT !.up[e] = atC]
        M7 == [M6 EXCEPT !.down[e] = ch]
        M8 == [M7 EXCEPT !.up[ch] = e]
        M9 == [M8 EXCEPT !.matrix[e] = H, !.column[e] = ch]
    IN IF M9.Value[ch].kind /= "Head" THEN Panic(M9)
       ELSE [M9 EXCEPT !.Value[ch] =
                 HeadValue(M9.Value[ch].name, U64Inc(M9.Value[ch].size))]

\* PushItem inserting below colHead itself (at the top of the column).
PushItemTop(M, row, colHead) ==
    insertItem(NewElement(M, TrueValue), M.n + 1, row, colHead)

\* Matrix.PushItem(row, colHead)
PushItem(M, row, colHead) ==
    insertItem(NewElement(M, TrueValue), M.n + 1, row, M.up[colHead])

\* Left without the comparison against the sentinel.
LeftRaw(M, e) == M.left[e]

\* Element.Up / Down / Left / Right
Up(M, e) == IF M.matrix[e] /= Nil /\ M.up[e] /= H THEN M.up[e] ELSE Nil
Down(M, e) == IF M.matrix[e] /= Nil /\ M.down[e] /= H THEN M.down[e] ELSE Nil
Left(M, e) == IF M.matrix[e] /= Nil /\ M.left[e] /= H THEN M.left[e] ELSE Nil
Right(M, e) == IF M.matrix[e] /= Nil /\ M.right[e] /= H THEN M.right[e] ELSE Nil

\* Iterations granted to one loop over a ring: more than any ring has elements.
Fuel(M) == M.n + 2

\* Head.size of header ch set to sz (the Go issue 3117 workaround: the whole
\* Head is rebuilt from its name and the new size).
SetSize(M, ch, sz) == [M EXCEPT !.Value[ch] = HeadValue(M.Value[ch].name, sz)]

\* cover's loop body without j.up.down = j.down.
coverItemHalf(M, j) ==
    LET M1 == [M EXCEPT !.up[M.down[j]] = M.up[j]]
        ch == M1.column[j]
    IN SetSize(M1, ch, U64Dec(M1.Value[ch].size))

\* cover's loop body without the update of the column's size.
coverItemNoSize(M, j) ==
    LET M1 == [M EXCEPT !.up[M.down[j]] = M.up[j]]
    IN [M1 EXCEPT !.down[M1.up[j]] = M1.down[j]]

\* cover's loop body also clearing the unlinked item's own up and down.
coverItemClear(M, j) ==
    LET M1 == [M EXCEPT !.up[M.down[j]] = M.up[j]]
        M2 == [M1 EXCEPT !.down[M1.up[j]] = M1.down[j]]
        ch == M2.column[j]
        M3 == SetSize(M2, ch, U64Dec(M2.Value[ch].size))
    IN [M3 EXCEPT !.up[j] = Nil, !.down[j] = Nil]

\* The body of cover's inner loop (dlx.go:178-180) for item j.
coverItem(M, j) ==
    LET M1 == [M EXCEPT !.up[M.down[j]] = M.up[j]]
        M2 == [M1 EXCEPT !.down[M1.up[j]] = M1.down[j]]
        ch == M2.column[j]
    IN IF M2.Value[ch].kind /= "Head" THEN Panic(M2)
       ELSE SetSize(M2, ch, U64Dec(M2.Value[ch].size))

\* cover's inner loop: for j := i.Right(); j != i; j = j.Right()
RECURSIVE coverRow(_, _, _, _)
coverRow(M, i, j, fuel) ==
    IF M.err /= "ok" \/ j = i THEN M
    ELSE IF j = Nil THEN Panic(M)
    ELSE IF fuel = 0 THEN Hang(M)
    ELSE LET M1 == coverItem(M, j)
         IN coverRow(M1, i, Right(M1, j), fuel - 1)

\* cover's outer loop: for i := c.Down(); i != c; i = i.Down()
RECURSIVE coverRows(_, _, _, _)
coverRows(M, c, i, fuel) ==
    IF M.err /= "ok" \/ i = c THEN M
    ELSE IF i = Nil THEN Panic(M)
    ELSE IF fuel = 0 THEN Hang(M)
    ELSE LET M1 == coverRow(M, i, Right(M, i), Fuel(M))
         IN coverRows(M1, c, Down(M1, i), fuel - 1)

\* The unlinking of header c without c.left.right = c.right.
coverHeadHalf(M, c) == [M EXCEPT !.left[M.right[c]] = M.left[c]]

\* The unlinking of header c from the header ring (dlx.go:174-175).
coverHead(M, c) ==
    LET M1 == [M EXCEPT !.left[M.right[c]] = M.left[c]]
    IN [M1 EXCEPT !.right[M1.left[c]] = M1.right[c]]

\* Matrix.cover(c)
cover(M, c) ==
    IF c = Nil THEN Panic(M)
    ELSE LET M1 == coverHead(M, c)
         IN coverRows(M1, c, Down(M1, c), Fuel(M))

\* uncover's loop body without j.up.down = j.
uncoverItemHalf(M, j) ==
    LET ch == M.column[j]
        M1 == SetSize(M, ch, U64Inc(M.Value[ch].size))
    IN [M1 EXCEPT !.up[M1.down[j]] = j]

\* The body of uncover's inner loop (dlx.go:189-191) for item j.
uncoverItem(M, j) ==
    LET ch == M.column[j]
    IN IF M.Value[ch].kind /= "Head" THEN Panic(M)
       ELSE LET M1 == SetSize(M, ch, U64Inc(M.Value[ch].size))
                M2 == [M1 EXCEPT !.up[M1.down[j]] = j]
            IN [M2 EXCEPT !.down[M2.up[j]] = j]

\* uncover's inner loop: for j := i.Left(); j != i; j = j.Left()
RECURSIVE uncoverRow(_, _, _, _)
uncoverRow(M, i, j, fuel) ==
    IF M.err /= "ok" \/ j = i THEN M
    ELSE IF j = Nil THEN Panic(M)
    ELSE IF fuel = 0 THEN Hang(M)
    ELSE LET M1 == uncoverItem(M, j)
         IN uncoverRow(M1, i, Left(M1, j), fuel - 1)

\* uncover's outer loop: for i := c.Up(); i != c; i = i.Up()
RECURSIVE uncoverRows(_, _, _, _)
uncoverRows(M, c, i, fuel) ==
    IF M.err /= "ok" \/ i = c THEN M
    ELSE IF i = Nil THEN Panic(M)
    ELSE IF fuel = 0 THEN Hang(M)
    ELSE LET M1 == uncoverRow(M, i, Left(M, i), Fuel(M))
         IN uncoverRows(M1, c, Up(M1, i), fuel - 1)

\* The relinking of header c without c.left.right = c.
uncoverHeadHalf(M, c) == [M EXCEPT !.left[M.right[c]] = c]

\* The relinking of header c into the header ring (dlx.go:194-195).
uncoverHead(M, c) ==
    LET M1 == [M EXCEPT !.left[M.right[c]] = c]
    IN [M1 EXCEPT !.right[M1.left[c]] = c]

\* Matrix.uncover(c)
uncover(M, c) ==
    IF c = Nil THEN Panic(M)
    ELSE LET M1 == uncoverRows(M, c, Up(M, c), Fuel(M))
         IN IF M1.err /= "ok" THEN M1 ELSE uncoverHead(M1, c)

\* getColumn's loop: for ce := m.Head(); ce != nil; ce = ce.Right(), with
\* the running minimum (c, s).  The result is [c, hang].
RECURSIVE getColumnLoop(_, _, _, _, _)
getColumnLoop(M, ce, c, s, fuel) ==
    IF ce = Nil THEN [c |-> c, hang |-> FALSE]
    ELSE IF fuel = 0 THEN [c |-> c, hang |-> TRUE]
    ELSE LET ces == M.Value[ce].size
         IN IF U64Less(ces, s)
            THEN getColumnLoop(M, Right(M, ce), ce, ces, fuel - 1)
            ELSE getColumnLoop(M, Right(M, ce), c, s, fuel - 1)

\* Matrix.getColumn
getColumn(M) == getColumnLoop(M, MatrixHead(M), Nil, MaxUint64, Fuel(M))

\* The row string's loop appending the names without the separating space.
RECURSIVE rowStrLoopNoSpace(_, _, _, _, _)
rowStrLoopNoSpace(M, oi, e, rowStr, fuel) ==
    IF e = oi \/ e = Nil \/ fuel = 0 THEN rowStr
    ELSE rowStrLoopNoSpace(M, oi, Right(M, e),
                           rowStr \o M.Value[M.column[e]].name, fuel - 1)

\* search's loop building one row string (dlx.go:120-123).
RECURSIVE rowStrLoop(_, _, _, _, _)
rowStrLoop(M, oi, e, rowStr, fuel) ==
    IF e = oi \/ e = Nil \/ fuel = 0 THEN rowStr
    ELSE rowStrLoop(M, oi, Right(M, e),
                    rowStr \o " " \o M.Value[M.column[e]].name, fuel - 1)

\* The string search records for the chosen row element oi (dlx.go:119-124).
rowString(M, oi) ==
    rowStrLoop(M, oi, Right(M, oi), M.Value[M.column[oi]].name, Fuel(M))

\* solStr of dlx.go:116-125.
solStr(M) == [i \in 1..Len(M.o) |-> rowString(M, M.o[i])]

\* ------------------------------------------------------------ the callers
\* The header and item elements allocated so far.
Heads(M) == {e \in 1..M.n : M.Value[e].kind = "Head"}
Items(M) == {e \in 1..M.n : M.Value[e].kind = "bool"}

\* The items of the row ring of item e (left and right of an item are set
\* by insertItem only).
RECURSIVE RowFrom(_, _, _, _)
RowFrom(M, e, j, acc) ==
    IF j = e \/ j \in acc THEN acc \cup {e}
    ELSE RowFrom(M, e, M.right[j], acc \cup {j})
RowOf(M, e) == RowFrom(M, e, M.right[e], {})
Rows(M) == {RowOf(M, e) : e \in Items(M)}

\* A frame of search(k): its level, its locals c, r, j and where it stands.
Frame(k) == [k |-> k, c |-> Nil, r |-> Nil, j |-> Nil, pc |-> "entry"]
Top == stack[Len(stack)]
SetTop(f) == [stack EXCEPT ![Len(stack)] = f]
Pop == SubSeq(stack, 1, Len(stack) - 1)
Running == mode = "solving" /\ err = "ok" /\ stack /= <<>>

\* What a Solve call's caller can compare afterwards.
Mesh(M) == [up |-> M.up, down |-> M.down, left |-> M.left, right |-> M.right,
            column |-> M.column, Value |-> M.Value]
NoMesh == Mesh(ZeroMatrix)

Ghosts == <<ret, calls, pre, prevRet, caller>>

\* Solve executes its next statements.
Tick == mode = "solving" /\ err = "ok" /\ tick' = 1 - tick

\* A PushHead, PushItem or Init ends the comparison of Solve calls.
Forget ==
    /\ ret' = <<>>
    /\ prevRet' = <<>>
    /\ calls' = 0
    /\ pre' = NoMesh
    /\ tick' = 0

Init ==
    /\ \E M \in {ZeroMatrix, New} : /\ n = M.n
                                    /\ up = M.up
                                    /\ down = M.down
                                    /\ left = M.left
                                    /\ right = M.right
                                    /\ column = M.column
                                    /\ matrix = M.matrix
                                    /\ Value = M.Value
                                    /\ o = M.o
                                    /\ solutions = M.solutions
                                    /\ err = M.err
    /\ stack = <<>>
    /\ mode = "idle"
    /\ ret = <<>>
    /\ prevRet = <<>>
    /\ calls = 0
    /\ pre = NoMesh
    /\ caller \in {"ordered", "any"}
    /\ tick = 0

\* m.Init() on a matrix in use: the caller starts over with an empty matrix
\* and drops the elements of the old one.
InitCall ==
    /\ mode = "idle" /\ err = "ok"
    /\ Cur /= New
    /\ Store(New)
    /\ Forget
    /\ UNCHANGED <<stack, mode, caller>>

\* The ordered caller builds row by row: the headers first, then each row's
\* items chained left to right (each PushItem passes the item pushed last).
\* The other caller makes any call, on a small matrix.
HeadAllowed ==
    IF caller = "ordered"
    THEN Items(Cur) = {} /\ Cardinality(Heads(Cur)) < MaxDim
    ELSE n < MaxFree
ItemAllowed(row, colHead) ==
    IF caller = "ordered"
    THEN IF row = Nil
         THEN Cardinality(Heads(Cur)) + Cardinality(Rows(Cur)) < MaxDim
         ELSE row = n /\ colHead > column[row]
    ELSE n < MaxFree

\* m.PushHead(name)
PushHeadCall ==
    /\ mode = "idle" /\ err = "ok"
    /\ HeadAllowed
    /\ \E M1 \in {PushHead(Cur, ColumnNames[Cardinality(Heads(Cur)) + 1])} :
          Store(M1)
    /\ Forget
    /\ UNCHANGED <<stack, mode, caller>>

\* m.PushItem(row, colHead): colHead a header of the matrix, row nil or an
\* item of the matrix whose row has no item under colHead yet.
PushItemCall ==
    /\ mode = "idle" /\ err = "ok"
    /\ \E colHead \in Heads(Cur), row \in Items(Cur) \cup {Nil} :
          /\ row /= Nil => \A e \in RowOf(Cur, row) : column[e] /= colHead
          /\ ItemAllowed(row, colHead)
          /\ \E M1 \in {PushItem(Cur, row, colHead)} : Store(M1)
    /\ Forget
    /\ UNCHANGED <<stack, mode, caller>>

\* m.Solve(): the call of search(0) (dlx.go:154).
SolveCall ==
    /\ mode = "idle" /\ err = "ok"
    /\ Len(solutions) < MaxSolutions
    /\ mode' = "solving"
    /\ stack' = <<Frame(0)>>
    /\ calls' = IF calls < 2 THEN calls + 1 ELSE calls
    /\ pre' = Mesh(Cur)
    /\ prevRet' = ret
    /\ UNCHANGED <<n, up, down, left, right, column, matrix, Value, o,
                   solutions, err, ret, caller>>
    /\ tick' = 0

\* The leaf returning without recording the solution.
searchLeafNoRecord ==
    /\ Running /\ Top.pc = "entry"
    /\ MatrixHead(Cur) = Nil
    /\ stack' = Pop
    /\ UNCHANGED <<n, up, down, left, right, column, matrix, Value, o,
                   solutions, err, mode>>
    /\ UNCHANGED Ghosts
    /\ Tick

\* search, dlx.go:115-128: no header left, the chosen rows are a solution.
searchLeaf ==
    /\ Running /\ Top.pc = "entry"
    /\ MatrixHead(Cur) = Nil
    /\ solutions' = Append(solutions, solStr(Cur))
    /\ stack' = Pop
    /\ UNCHANGED <<n, up, down, left, right, column, matrix, Value, o, err,
                   mode>>
    /\ UNCHANGED Ghosts
    /\ Tick

\* search, dlx.go:129-131: choose a column, cover it, start on its rows.
searchChoose ==
    /\ Running /\ Top.pc = "entry"
    /\ MatrixHead(Cur) /= Nil
    /\ \E g \in {getColumn(Cur)} :
         \E M1 \in {IF g.hang THEN Hang(Cur) ELSE cover(Cur, g.c)} :
            /\ Store(M1)
            /\ stack' = SetTop([Top EXCEPT !.c = g.c, !.r = Down(M1, g.c),
                                           !.pc = "loop"])
    /\ UNCHANGED mode
    /\ UNCHANGED Ghosts
    /\ Tick

\* search, dlx.go:131-133: the row loop goes on: push r, start covering.
searchPick ==
    /\ Running /\ Top.pc = "loop"
    /\ Top.r /= Top.c
    /\ IF Top.r = Nil
       THEN Store(Panic([Cur EXCEPT !.o = Append(o, Nil)])) /\ UNCHANGED stack
       ELSE /\ Store([Cur EXCEPT !.o = Append(o, Top.r)])
            /\ stack' = SetTop([Top EXCEPT !.j = Right(Cur, Top.r),
                                           !.pc = "coverRow"])
    /\ UNCHANGED mode
    /\ UNCHANGED Ghosts
    /\ Tick

\* search, dlx.go:133-135: cover the column of the next item of row r.
searchCover ==
    /\ Running /\ Top.pc = "coverRow"
    /\ Top.j /= Top.r
    /\ IF Top.j = Nil
       THEN Store(Panic(Cur)) /\ UNCHANGED stack
       ELSE \E M1 \in {cover(Cur, column[Top.j])} :
               /\ Store(M1)
               /\ stack' = SetTop([Top EXCEPT !.j = Right(M1, Top.j)])
    /\ UNCHANGED mode
    /\ UNCHANGED Ghosts
    /\ Tick

\* search, dlx.go:136: the recursive call search(k + 1).
searchCall ==
    /\ Running /\ Top.pc = "coverRow"
    /\ Top.j = Top.r
    /\ stack' = Append(SetTop([Top EXCEPT !.pc = "resume"]), Frame(Top.k + 1))
    /\ UNCHANGED <<n, up, down, left, right, column, matrix, Value, o,
                   solutions, err, mode>>
    /\ UNCHANGED Ghosts
    /\ Tick

\* The return from the call without m.o = m.o[0 : len(m.o)-1].
searchResumeNoPop ==
    /\ Running /\ Top.pc = "resume"
    /\ IF Top.k + 1 > Len(o) \/ o[Top.k + 1] = Nil
       THEN Store(Panic(Cur)) /\ UNCHANGED stack
       ELSE LET r == o[Top.k + 1]
            IN /\ Store([Cur EXCEPT !.o = [o EXCEPT ![Top.k + 1] = Nil]])
               /\ stack' = SetTop([Top EXCEPT !.r = r, !.c = column[r],
                                              !.j = Left(Cur, r),
                                              !.pc = "uncoverRow"])
    /\ UNCHANGED mode
    /\ UNCHANGED Ghosts
    /\ Tick

\* search, dlx.go:137-143: back from the call: pop the row, start uncovering.
searchResume ==
    /\ Running /\ Top.pc = "resume"
    /\ IF Top.k + 1 > Len(o) \/ o[Top.k + 1] = Nil
       THEN Store(Panic(Cur)) /\ UNCHANGED stack
       ELSE LET r == o[Top.k + 1]
                o1 == [o EXCEPT ![Top.k + 1] = Nil]
            IN /\ Store([Cur EXCEPT !.o = SubSeq(o1, 1, Len(o1) - 1)])
               /\ stack' = SetTop([Top EXCEPT !.r = r, !.c = column[r],
                                              !.j = Left(Cur, r),
                                              !.pc = "uncoverRow"])
    /\ UNCHANGED mode
    /\ UNCHANGED Ghosts
    /\ Tick

\* search, dlx.go:143-145: uncover the column of the next item to the left.
searchUncover ==
    /\ Running /\ Top.pc = "uncoverRow"
    /\ Top.j /= Top.r
    /\ IF Top.j = Nil
       THEN Store(Panic(Cur)) /\ UNCHANGED stack
       ELSE \E M1 \in {uncover(Cur, column[Top.j])} :
               /\ Store(M1)
               /\ stack' = SetTop([Top EXCEPT !.j = Left(M1, Top.j)])
    /\ UNCHANGED mode
    /\ UNCHANGED Ghosts
    /\ Tick

\* The loop's step leaving the loop after the first row (r = c).
searchNextBreak ==
    /\ Running /\ Top.pc = "uncoverRow"
    /\ Top.j = Top.r
    /\ stack' = SetTop([Top EXCEPT !.r = Top.c, !.pc = "loop"])
    /\ UNCHANGED <<n, up, down, left, right, column, matrix, Value, o,
                   solutions, err, mode>>
    /\ UNCHANGED Ghosts
    /\ Tick

\* The loop's step not advancing r.
searchNextStuck ==
    /\ Running /\ Top.pc = "uncoverRow"
    /\ Top.j = Top.r
    /\ stack' = SetTop([Top EXCEPT !.pc = "loop"])
    /\ UNCHANGED <<n, up, down, left, right, column, matrix, Value, o,
                   solutions, err, mode>>
    /\ UNCHANGED Ghosts
    /\ Tick

\* search, dlx.go:131: the loop's step r = r.Down().
searchNext ==
    /\ Running /\ Top.pc = "uncoverRow"
    /\ Top.j = Top.r
    /\ stack' = SetTop([Top EXCEPT !.r = Down(Cur, Top.r), !.pc = "loop"])
    /\ UNCHANGED <<n, up, down, left, right, column, matrix, Value, o,
                   solutions, err, mode>>
    /\ UNCHANGED Ghosts
    /\ Tick

\* The end of search without m.uncover(c).
searchDoneNoUncover ==
    /\ Running /\ Top.pc = "loop"
    /\ Top.r = Top.c
    /\ stack' = Pop
    /\ UNCHANGED <<n, up, down, left, right, column, matrix, Value, o,
                   solutions, err, mode>>
    /\ UNCHANGED Ghosts
    /\ Tick

\* search, dlx.go:147-148: the rows are exhausted: uncover c and return.
searchDone ==
    /\ Running /\ Top.pc = "loop"
    /\ Top.r = Top.c
    /\ \E M1 \in {uncover(Cur, Top.c)} : Store(M1)
    /\ stack' = Pop
    /\ UNCHANGED mode
    /\ UNCHANGED Ghosts
    /\ Tick

\* Solve, dlx.go:155: search(0) has returned; return m.solutions.
SolveReturn ==
    /\ mode = "solving" /\ err = "ok" /\ stack = <<>>
    /\ mode' = "idle"
    /\ ret' = solutions
    /\ Tick
    /\ UNCHANGED <<n, up, down, left, right, column, matrix, Value, o,
                   solutions, err, stack, calls, pre, prevRet, caller>>

Next ==
    \/ InitCall
    \/ PushHeadCall
    \/ PushItemCall
    \/ SolveCall
    \/ searchLeaf
    \/ searchChoose
    \/ searchPick
    \/ searchCover
    \/ searchCall
    \/ searchResume
    \/ searchUncover
    \/ searchNext
    \/ searchDone
    \/ SolveReturn

Spec == Init /\ [][Next]_vars

\* The steps of a running Solve.
SolveStep ==
    \/ searchLeaf
    \/ searchChoose
    \/ searchPick
    \/ searchCover
    \/ searchCall
    \/ searchResume
    \/ searchUncover
    \/ searchNext
    \/ searchDone
    \/ SolveReturn

\* Solve runs single-threaded and synchronously: a call that has not
\* returned or panicked goes on to execute its next statements.
SpecLive == Init /\ [][Next]_vars /\ WF_tick(Tick)

\* ------------------------------------------------------- what is claimed
\* The headers linked in the header ring: those met from the sentinel by
\* right-links until the sentinel is met again.
RECURSIVE HeadsFrom(_, _, _)
HeadsFrom(M, ce, acc) ==
    IF ce = Nil \/ ce = H \/ ce \in acc THEN acc
    ELSE HeadsFrom(M, M.right[ce], acc \cup {ce})
LiveHeads(M) == HeadsFrom(M, M.right[H], {})

\* The items linked in the vertical ring of header c: those met from c by
\* down-links until c is met again.
RECURSIVE ItemsFrom(_, _, _, _)
ItemsFrom(M, c, i, acc) ==
    IF i = c \/ i = Nil \/ i \in acc THEN acc
    ELSE ItemsFrom(M, c, M.down[i], acc \cup {i})
ColItems(M, c) == ItemsFrom(M, c, M.down[c], {})

\* The headers a row has an item under.
ColumnsOf(M, row) == {M.column[e] : e \in row}

\* The exact covers of the matrix: the sets of rows that have exactly one
\* item under every header.
ExactCovers(M) ==
    {S \in SUBSET Rows(M) :
        \A h \in Heads(M) : Cardinality({r \in S : h \in ColumnsOf(M, r)}) = 1}

\* sol, a sequence of row strings, lists the rows of S: one string per row,
\* each the string search writes for that row from one of its items.
Renders(M, sol, S) ==
    /\ Len(sol) = Cardinality(S)
    /\ \E pick \in [1..Len(sol) -> UNION S] :
          /\ \A i \in 1..Len(sol) : sol[i] = rowString(M, pick[i])
          /\ {RowOf(M, pick[i]) : i \in 1..Len(sol)} = S

\* A Solve call has returned and the matrix was not modified since.
Returned == mode = "idle" /\ calls >= 1 /\ err = "ok"

SetOf(q) == {q[i] : i \in 1..Len(q)}

\* C1. Completeness: when Solve returns, every exact cover of the matrix
\* (every set of rows with exactly one item under each column) is listed by
\* one of the returned solutions.
C1_Complete ==
    Returned =>
        \A S \in ExactCovers(Cur) :
            \E i \in 1..Len(ret) : Renders(Cur, ret[i], S)

\* C1 witness: Solve has returned on a matrix with several exact covers, one
\* of them made of several rows.
C1_Witness ==
    /\ Returned
    /\ Cardinality(ExactCovers(Cur)) >= 2
    /\ \E S \in ExactCovers(Cur) : Cardinality(S) >= 2

\* C2. Solution validity, as claimed: every solution Solve returns lists the
\* rows of an exact cover of the matrix (every column under exactly one of
\* its rows).
C2_Valid ==
    Returned =>
        \A i \in 1..Len(ret) :
            \E S \in ExactCovers(Cur) : Renders(Cur, ret[i], S)

\* C3. Solution count, as claimed: every Solve call, a repeated one
\* included, returns exactly as many solutions as the matrix has exact
\* covers.
C3_Count == Returned => Len(ret) = Cardinality(ExactCovers(Cur))

\* C4. Solve restores the matrix: when Solve returns, every pointer (up,
\* down, left, right, column) of every element and every header's name and
\* size are what they were when it was called.
C4_Restored ==
    (mode = "solving" /\ stack = <<>> /\ err = "ok") \/ Returned
        => Mesh(Cur) = pre

\* C4 witness: Solve has returned solutions of a matrix of three columns
\* in which some row has several items.
C4_Witness ==
    /\ Returned
    /\ ret /= <<>>
    /\ Cardinality(Heads(Cur)) >= 3
    /\ \E r \in Rows(Cur) : Cardinality(r) >= 2

\* C5. Idempotent re-solve: two Solve calls with no PushHead, PushItem or
\* Init in between return the same set of solutions.
C5_Idempotent == Returned /\ calls = 2 => SetOf(ret) = SetOf(prevRet)

\* C5 witness: the second of two such calls has returned, on a matrix that
\* has solutions.
C5_Witness == Returned /\ calls = 2 /\ prevRet /= <<>> /\ n >= 3

\* C6. No-solution case, as claimed: with a header that has no item Solve
\* returns the empty sequence, without an error, and leaves the mesh as it
\* was.
C6_NoSolution ==
    /\ err = "ok"
    /\ Returned /\ (\E h \in Heads(Cur) : \A e \in Items(Cur) : column[e] /= h)
           => ret = <<>> /\ Mesh(Cur) = pre

\* C7. Cover/uncover inverse law: in every state reached while the matrix
\* is built or solved, for every header c linked in the header ring,
\* cover(c) followed at once by uncover(c) gives back every pointer and
\* every size.
C7_Inverse ==
    err = "ok" =>
        \A c \in LiveHeads(Cur) : uncover(cover(Cur, c), c) = Cur

\* C7 witness: a linked header with two rows that share two more columns.
C7_Witness ==
    /\ err = "ok"
    /\ \E c \in LiveHeads(Cur) :
          \E i1, i2 \in ColItems(Cur, c) :
              /\ i1 /= i2
              /\ Cardinality(ColumnsOf(Cur, RowOf(Cur, i1))
                             \cap ColumnsOf(Cur, RowOf(Cur, i2))) >= 3

\* The elements whose pointers are set: those allocated by PushHead and
\* PushItem, and the sentinel once Init has run.
Elements == (1..n) \cup (IF right[H] = Nil THEN {} ELSE {H})

\* e.right.left == e and e.left.right == e; e.up.down == e and e.down.up == e.
SymH(e) == left[right[e]] = e /\ right[left[e]] = e
SymV(e) == down[up[e]] = e /\ up[down[e]] = e

\* The elements linked in their rings: the sentinel, the headers of the
\* header ring and the items of their vertical rings.
Linked ==
    (Elements \cap {H}) \cup LiveHeads(Cur)
        \cup UNION {ColItems(Cur, c) : c \in LiveHeads(Cur)}

\* C8. Ring symmetry, as claimed: every element, linked or unlinked by a
\* cover, has e.right.left == e, e.left.right == e, e.up.down == e and
\* e.down.up == e.
C8_Symmetry == \A e \in Elements : SymH(e) /\ SymV(e)

\* C8 as amended: the four equalities hold for every element that is
\* linked in its rings, and for every element whenever no Solve is running;
\* an item always keeps e.right.left == e and e.left.right == e.
C8_SymmetryLinked ==
    /\ \A e \in Linked : SymH(e) /\ SymV(e)
    /\ \A e \in Items(Cur) : SymH(e)
    /\ mode = "idle" => \A e \in Elements : SymH(e) /\ SymV(e)

\* C8 witness: during a Solve, a covered header and an unlinked item.
C8_Witness ==
    /\ mode = "solving"
    /\ \E h \in Heads(Cur) : h \notin Linked /\ ~SymH(h)
    /\ \E e \in Items(Cur) : e \notin Linked /\ ~SymV(e)

\* C9. Size consistency: between the calls of cover and uncover, and after
\* every PushHead and PushItem, the size of every header, covered or not, is
\* the number of items in its vertical ring, and is never below 0.
C9_Size ==
    \A h \in Heads(Cur) :
        Value[h].size = Cardinality(ColItems(Cur, h)) /\ Value[h].size >= 0

\* C9 witness: during a Solve, a covered header that still has items, and a
\* header whose size is below the number of items pushed under it.
C9_Witness ==
    /\ mode = "solving"
    /\ \E h \in Heads(Cur) : h \notin LiveHeads(Cur) /\ Value[h].size >= 1
    /\ \E h \in Heads(Cur) :
          Value[h].size < Cardinality({e \in Items(Cur) : column[e] = h})

\* C10. Termination: a Solve call returns, and none of its loops runs on or
\* fails.
C10_Terminates == [](err = "ok") /\ ((mode = "solving") ~> (mode = "idle"))

\* C10 witness: Solve has returned from a search that chose two rows, one
\* level after the other.
C10_Witness == Returned /\ \E i \in 1..Len(ret) : Len(ret[i]) >= 2

\* The items of the row ring of item e in rightward order, starting at e.
RECURSIVE RingFrom(_, _, _, _)
RingFrom(M, e, j, acc) ==
    IF j = e \/ Len(acc) > M.n THEN acc
    ELSE RingFrom(M, e, M.right[j], Append(acc, j))
RingSeq(M, e) == RingFrom(M, e, M.right[e], <<e>>)

\* The strings of s joined by single spaces.
RECURSIVE Join(_)
Join(s) == IF Len(s) = 1 THEN s[1] ELSE s[1] \o " " \o Join(Tail(s))

\* The names of the columns of e's row, from e rightwards, space-separated.
Identifier(M, e) ==
    Join([i \in 1..Len(RingSeq(M, e)) |-> M.Value[M.column[RingSeq(M, e)[i]]].name])

\* The item of e's row that was pushed first, with no preceding row element
\* (element ids are in allocation order).
FirstOf(M, e) == CHOOSE x \in RowOf(M, e) : \A y \in RowOf(M, e) : x <= y

\* search has just recorded a solution: the call that found the header ring
\* empty has returned to its caller (a call that chose a column relinks it
\* before it returns, so the ring is empty only after a leaf).
JustRecorded ==
    /\ mode = "solving" /\ err = "ok"
    /\ MatrixHead(Cur) = Nil
    /\ solutions /= <<>>
    /\ stack = <<>> \/ Top.pc = "resume"

\* C11. Solution string format, as claimed: the i-th string of a recorded
\* solution starts with the name of the column of the row's first-pushed
\* item and goes on rightwards from there, so that a row has one identifier.
C11_Format ==
    JustRecorded =>
        LET sol == solutions[Len(solutions)]
        IN /\ Len(sol) = Len(o)
           /\ \A i \in 1..Len(o) : sol[i] = Identifier(Cur, FirstOf(Cur, o[i]))

\* C11 as amended: the i-th string describes the row chosen at level i; it
\* starts with the name of the column that search chose at that level (the
\* column of the row's item in that column) and goes on rightwards around
\* the row ring, each column of the row once, separated by single spaces.
C11_FormatChosen ==
    JustRecorded =>
        LET sol == solutions[Len(solutions)]
        IN /\ Len(sol) = Len(o)
           /\ Len(stack) = Len(o)
           /\ \A i \in 1..Len(o) :
                 /\ stack[i].k = i - 1
                 /\ o[i] = stack[i].r
                 /\ column[o[i]] = stack[i].c
                 /\ sol[i] = Identifier(Cur, o[i])
                 /\ Len(RingSeq(Cur, o[i]))
                        = Cardinality(ColumnsOf(Cur, RowOf(Cur, o[i])))

\* C11 witness: a solution was just recorded with a row of several items
\* that was chosen through a column other than its first.
C11_Witness ==
    /\ JustRecorded
    /\ \E i \in 1..Len(o) :
          o[i] /= FirstOf(Cur, o[i]) /\ Cardinality(RowOf(Cur, o[i])) >= 2

\* The items of header c's vertical ring from the top down.
RECURSIVE ColFrom(_, _, _, _)
ColFrom(M, c, i, acc) ==
    IF i = c \/ i = Nil \/ Len(acc) > M.n THEN acc
    ELSE ColFrom(M, c, M.down[i], Append(acc, i))
ColSeq(M, c) == ColFrom(M, c, M.down[c], <<>>)

\* What PushItem(row, colHead) has done to matrix M.
PushItemPost(M, row, colHead) ==
    LET M1 == PushItem(M, row, colHead)
        e == M.n + 1
    IN /\ M1.err = "ok" /\ M1.n = e
       /\ M1.Value[e] = TrueValue /\ M1.matrix[e] = H
       \* at the bottom of colHead's ring, immediately above the header
       /\ M1.down[e] = colHead /\ M1.up[colHead] = e
       /\ M1.up[e] = M.up[colHead] /\ M1.down[M.up[colHead]] = e
       /\ ColSeq(M1, colHead) = Append(ColSeq(M, colHead), e)
       /\ M1.column[e] = colHead
       /\ M1.Value[colHead] = HeadValue(M.Value[colHead].name,
                                        M.Value[colHead].size + 1)
       \* the row ring
       /\ IF row = Nil
          THEN M1.left[e] = e /\ M1.right[e] = e
          ELSE /\ M1.left[e] = row /\ M1.right[row] = e
               /\ M1.right[e] = M.right[row] /\ M1.left[M.right[row]] = e
               /\ RingSeq(M1, row) = <<row, e>> \o Tail(RingSeq(M, row))
       \* nothing else
       /\ \A h \in Heads(M) \ {colHead} :
             /\ ColSeq(M1, h) = ColSeq(M, h)
             /\ M1.Value[h] = M.Value[h]
             /\ M1.up[h] = M.up[h] /\ M1.down[h] = M.down[h]
       /\ \A x \in Items(M) :
             /\ M.column[x] /= colHead
                   => M1.up[x] = M.up[x] /\ M1.down[x] = M.down[x]
             /\ row = Nil \/ x \notin RowOf(M, row)
                   => M1.left[x] = M.left[x] /\ M1.right[x] = M.right[x]
       /\ \A x \in Heads(M) \cup {H} :
             M1.left[x] = M.left[x] /\ M1.right[x] = M.right[x]
       /\ \A x \in 1..M.n : M1.column[x] = M.column[x]
       /\ M1.o = M.o /\ M1.solutions = M.solutions

\* C12. PushItem(row, colHead) postcondition: on a matrix that is not being
\* solved, for every header colHead and every row (none, or an item whose
\* row has no item under colHead), the new item is at the bottom of
\* colHead's vertical ring with column colHead, colHead's size is one more,
\* the item is alone in its row ring or immediately right of row, and no
\* other column, size or row ring is changed; every column lists its items
\* in push order from the top down.
C12_PushItem ==
    mode = "idle" /\ err = "ok" =>
        /\ \A colHead \in Heads(Cur), row \in Items(Cur) \cup {Nil} :
              (row /= Nil => \A x \in RowOf(Cur, row) : column[x] /= colHead)
                  => PushItemPost(Cur, row, colHead)
        /\ \A h \in Heads(Cur) :
              \A a, b \in 1..Len(ColSeq(Cur, h)) :
                  a < b => ColSeq(Cur, h)[a] < ColSeq(Cur, h)[b]

\* C12 witness: the last call was PushItem with a preceding row element,
\* under a header that had an item already, next to another column with
\* items.
C12_Witness ==
    /\ mode = "idle" /\ err = "ok" /\ calls = 0
    /\ n \in Items(Cur)
    /\ left[n] /= n
    /\ Len(ColSeq(Cur, column[n])) >= 2
    /\ up[column[n]] = n
    /\ \E h \in Heads(Cur) : h /= column[n] /\ Len(ColSeq(Cur, h)) >= 1

\* The headers of the header ring from the sentinel rightwards.
RECURSIVE HeadFrom(_, _, _)
HeadFrom(M, ce, acc) ==
    IF ce = H \/ ce = Nil \/ Len(acc) > M.n THEN acc
    ELSE HeadFrom(M, M.right[ce], Append(acc, ce))
HeadSeq(M) == HeadFrom(M, M.right[H], <<>>)

\* What PushHead(name) has done to matrix M.
PushHeadPost(M, name) ==
    LET M1 == PushHead(M, name)
        e == M.n + 1
    IN /\ M1.err = "ok" /\ M1.n = e /\ M1.matrix[e] = H
       \* at the right end of the header ring, immediately left of the sentinel
       /\ M1.right[e] = H /\ M1.left[H] = e
       /\ HeadSeq(M1) = Append(HeadSeq(M), e)
       /\ MatrixHead(M1) = IF HeadSeq(M) = <<>> THEN e ELSE HeadSeq(M)[1]
       \* name, size 0, a self-referential vertical ring
       /\ M1.Value[e] = HeadValue(name, 0)
       /\ M1.up[e] = e /\ M1.down[e] = e /\ M1.column[e] = e
       \* existing columns and rows are unchanged
       /\ \A x \in 1..M.n :
             /\ M1.up[x] = M.up[x] /\ M1.down[x] = M.down[x]
             /\ M1.column[x] = M.column[x] /\ M1.Value[x] = M.Value[x]
             /\ M1.left[x] = M.left[x]
             /\ M.right[x] /= H => M1.right[x] = M.right[x]
       /\ M1.o = M.o

\* C13. PushHead(name) postcondition: on a matrix that is not being solved
\* (the zero value included) the new header is at the right end of the
\* header ring, immediately left of the sentinel, with the given name, size
\* 0 and up == down == itself, and the existing elements are unchanged; the
\* header ring lists the headers in push order and Head() returns the
\* first-pushed one.
C13_PushHead ==
    mode = "idle" /\ err = "ok" =>
        /\ \A name \in {ColumnNames[1], ColumnNames[2]} :
              PushHeadPost(Cur, name)
        /\ SetOf(HeadSeq(Cur)) = Heads(Cur)
        /\ \A a, b \in 1..Len(HeadSeq(Cur)) :
              a < b => HeadSeq(Cur)[a] < HeadSeq(Cur)[b]
        /\ MatrixHead(Cur) = IF Heads(Cur) = {} THEN Nil
                             ELSE CHOOSE h \in Heads(Cur) :
                                      \A g \in Heads(Cur) : h <= g

\* C13 witness: the last call was PushHead, the third on a matrix that has
\* an item already.
C13_Witness ==
    /\ mode = "idle" /\ err = "ok" /\ calls = 0
    /\ n \in Heads(Cur)
    /\ right[n] = H
    /\ Len(HeadSeq(Cur)) >= 3
    /\ Items(Cur) /= {}

\* What an accessor may return for neighbour p: none for the sentinel, else p.
Shown(p) == IF p = H THEN Nil ELSE p

\* C14. The sentinel is never exposed: in every state, during Solve too, for
\* every element pushed by PushHead or PushItem each of Up, Down, Left and
\* Right returns none exactly when that neighbour is the sentinel and the
\* neighbour otherwise; Head() returns none exactly when no header is linked
\* in the header ring, and the first linked header otherwise.
C14_NoSentinel ==
    /\ \A e \in 1..n :
          /\ Up(Cur, e) = Shown(up[e])
          /\ Down(Cur, e) = Shown(down[e])
          /\ Left(Cur, e) = Shown(left[e])
          /\ Right(Cur, e) = Shown(right[e])
          /\ H \notin {Up(Cur, e), Down(Cur, e), Left(Cur, e), Right(Cur, e)}
          /\ Nil \notin {up[e], down[e], left[e], right[e]}
    /\ MatrixHead(Cur) = Nil <=> LiveHeads(Cur) = {}
    /\ MatrixHead(Cur) /= Nil => MatrixHead(Cur) = HeadSeq(Cur)[1]
    /\ MatrixHead(Cur) /= H

\* C14 witness: during a Solve, a linked header left of the sentinel, one
\* right of it, and a covered header whose right neighbour is the sentinel.
C14_Witness ==
    /\ mode = "solving"
    /\ \E g, h \in LiveHeads(Cur) : g /= h /\ right[g] = H /\ left[h] = H
    /\ \E h \in Heads(Cur) \ LiveHeads(Cur) : right[h] = H

\* The matrix New() is in after the calls that brought the never-initialized
\* zero-value matrix M to its state: before the first PushHead or Init only
\* Head and Solve can be called, and each Solve appends one solution.
NewAfterSame(M) == [New EXCEPT !.solutions = M.solutions]

\* C15. Zero value is ready to use, as claimed: on a zero-value matrix
\* that has not been initialized yet, Head() returns what it returns on
\* New()'s matrix after the same calls, and PushHead leaves the two
\* matrices equal, so that every later call gives the same results.
C15_ZeroValue ==
    mode = "idle" /\ err = "ok" /\ right[H] = Nil =>
        /\ MatrixHead(Cur) = MatrixHead(NewAfterSame(Cur))
        /\ \A name \in SetOf(ColumnNames) :
              PushHead(Cur, name) = PushHead(NewAfterSame(Cur), name)

\* C16. Column selection: whenever a header is linked in the header ring,
\* at every entry to search in particular, getColumn ends and returns a
\* linked header of minimal size, the first of that size in the header ring
\* from the sentinel rightwards.
C16_MinColumn ==
    err = "ok" /\ LiveHeads(Cur) /= {} =>
        LET g == getColumn(Cur)
            hs == HeadSeq(Cur)
        IN /\ ~g.hang
           /\ g.c /= Nil
           /\ g.c \in LiveHeads(Cur)
           /\ \E p \in 1..Len(hs) :
                 /\ hs[p] = g.c
                 /\ \A q \in 1..Len(hs) :
                       /\ Value[hs[q]].size >= Value[g.c].size
                       /\ q < p => Value[hs[q]].size > Value[g.c].size

\* C16 witness: search is entered with three linked headers, the first not
\* of minimal size and two of minimal size.
C16_Witness ==
    /\ Running /\ Top.pc = "entry"
    /\ Len(HeadSeq(Cur)) >= 3
    /\ \E g, h \in LiveHeads(Cur) :
          /\ g /= h
          /\ Value[g].size = Value[h].size
          /\ Value[g].size < Value[HeadSeq(Cur)[1]].size
          /\ \A x \in LiveHeads(Cur) : Value[x].size >= Value[g].size

\* Following pointer f from element e leads back to start.
RECURSIVE Returns(_, _, _, _)
Returns(f, start, e, fuel) ==
    IF f[e] = start THEN TRUE
    ELSE IF fuel = 0 \/ f[e] = Nil THEN FALSE
    ELSE Returns(f, start, f[e], fuel - 1)

\* C17. Live-ring well-formedness during search: in every state of a
\* running Solve between its cover and uncover calls, every linked element
\* (the sentinel, the headers reached from it by right-links, the items
\* reached from these by down-links) has e.right.left == e, e.left.right ==
\* e, e.up.down == e and e.down.up == e, and each of its rings is circular:
\* following right, left, down or up from e leads back to e.
C17_LiveRings ==
    mode = "solving" =>
        /\ err = "ok"
        /\ \A e \in Linked :
              /\ SymH(e) /\ SymV(e)
              /\ Returns(right, e, e, n + 1) /\ Returns(left, e, e, n + 1)
              /\ Returns(down, e, e, n + 1) /\ Returns(up, e, e, n + 1)

\* C17 witness: inside a recursive call of search, with a header and an item
\* still linked next to covered headers and unlinked items.
C17_Witness ==
    /\ Running /\ Top.k >= 1
    /\ \E h \in LiveHeads(Cur) : ColItems(Cur, h) /= {}
    /\ \E h \in Heads(Cur) : h \notin Linked
    /\ \E e \in Items(Cur) : e \notin Linked /\ ~SymV(e)

\* C18. Stack discipline of the chosen rows: at the entry to search(k) m.o
\* has length k; while search(k) covers a row and when its recursive call
\* returns, m.o has length k + 1 and m.o[k] is the row pushed before the
\* call; after the pop, and when search(k) returns, m.o has length k again
\* and still holds the rows of the calling levels; after Solve m.o is empty.
C18_Stack ==
    /\ mode = "idle" => o = <<>> /\ stack = <<>>
    /\ mode = "solving" /\ err = "ok" =>
          /\ \A i \in 1..Len(stack) : stack[i].k = i - 1
          /\ \A i \in 1..(Len(stack) - 1) :
                stack[i].pc = "resume" /\ i <= Len(o) /\ o[i] = stack[i].r
          /\ stack = <<>> => o = <<>>
          /\ stack /= <<>> =>
                IF Top.pc \in {"coverRow", "resume"}
                THEN Len(o) = Top.k + 1 /\ o[Top.k + 1] = Top.r
                ELSE Len(o) = Top.k

\* C18 witness: a recursive call has returned to search(1), which is about
\* to pop its row, below the row of search(0).
C18_Witness ==
    /\ Running /\ Top.pc = "resume" /\ Top.k = 1
    /\ Len(o) = 2 /\ o[1] /= o[2]

\* The items cover(c) unlinks from their columns, and uncover(c) relinks:
\* the other items of the rows that have an item in c's vertical ring.
Unlinked(M, c) == UNION {RowOf(M, i) \ {i} : i \in ColItems(M, c)}

\* What neither cover(c) nor uncover(c) changes, M1 being M after the call:
\* the left and right of items, the column pointers, the names of headers,
\* the values of items, and c's own pointers.
FrameKept(M, M1, c) ==
    /\ M1.err = "ok" /\ M1.n = M.n
    /\ M1.o = M.o /\ M1.solutions = M.solutions
    /\ M1.column = M.column /\ M1.matrix = M.matrix
    /\ \A x \in Items(M) :
          /\ M1.left[x] = M.left[x] /\ M1.right[x] = M.right[x]
          /\ M1.Value[x] = M.Value[x]
    /\ \A h \in Heads(M) :
          M1.Value[h].kind = "Head" /\ M1.Value[h].name = M.Value[h].name
    /\ M1.Value[H] = M.Value[H]
    /\ M1.left[c] = M.left[c] /\ M1.right[c] = M.right[c]
    /\ M1.up[c] = M.up[c] /\ M1.down[c] = M.down[c]

\* The call leaves the own up and down of the items of U as they were.
OwnKept(M, M1, U) == \A j \in U : M1.up[j] = M.up[j] /\ M1.down[j] = M.down[j]

\* The only differences between matrix A, in which the items of U are
\* linked, and matrix B, in which cover(c) has unlinked them: left and right
\* of c's two horizontal neighbours, up and down of the elements whose upper
\* or lower neighbour in A is an item of U, and the sizes of the columns of
\* the items of U, by the number of these items.
FrameOnly(A, B, c, U) ==
    /\ \A x \in 0..A.n :
          /\ B.left[x] /= A.left[x] => x = A.right[c]
          /\ B.right[x] /= A.right[x] => x = A.left[c]
          /\ B.up[x] /= A.up[x] => A.up[x] \in U
          /\ B.down[x] /= A.down[x] => A.down[x] \in U
    /\ \A h \in Heads(A) :
          B.Value[h].size
              = A.Value[h].size - Cardinality({j \in U : A.column[j] = h})

\* C19. Frame of cover and uncover, as claimed: for every linked header c,
\* cover(c) and the uncover(c) that follows it change no item's left or
\* right, no column pointer, no header's name, none of c's own pointers,
\* and not the own up and down of the items they unlink or relink; cover
\* changes only the neighbours' pointers and the sizes.
C19_Frame ==
    err = "ok" =>
        \A c \in LiveHeads(Cur) :
            LET M1 == cover(Cur, c)
                M2 == uncover(M1, c)
                U == Unlinked(Cur, c)
            IN /\ FrameKept(Cur, M1, c) /\ FrameKept(M1, M2, c)
               /\ FrameOnly(Cur, M1, c, U)
               /\ OwnKept(Cur, M1, U) /\ OwnKept(M1, M2, U)

\* C19 as amended: the own up and down of an unlinked item change only
\* where its upper or lower neighbour is itself an item unlinked by the
\* same call (relinked by the same uncover); everything else as claimed,
\* and throughout Solve every column pointer is the one set by PushHead or
\* PushItem.
C19_FrameNeighbours ==
    /\ err = "ok" =>
          \A c \in LiveHeads(Cur) :
              LET M1 == cover(Cur, c)
                  M2 == uncover(M1, c)
                  U == Unlinked(Cur, c)
              IN /\ FrameKept(Cur, M1, c) /\ FrameKept(M1, M2, c)
                 /\ FrameOnly(Cur, M1, c, U)
                 /\ FrameOnly(M2, M1, c, U)
    /\ mode = "solving" => column = pre.column
    /\ \A e \in Items(Cur) : column[e] \in Heads(Cur)
    /\ \A h \in Heads(Cur) : column[h] = h

\* C19 witness: during a Solve, a linked header whose cover unlinks two
\* items that are vertical neighbours, and so changes the own up pointer
\* of one of them.
C19_Witness ==
    /\ mode = "solving" /\ err = "ok"
    /\ \E h \in Heads(Cur) : h \notin LiveHeads(Cur)
    /\ \E c \in LiveHeads(Cur) :
          \E j \in Unlinked(Cur, c) :
              up[j] \in Unlinked(Cur, c) /\ cover(Cur, c).up[j] /= up[j]

\* C20. Empty-matrix edge case: the first Solve on a matrix without
\* headers, fresh from New() or Init() or a zero value, finds the header
\* ring empty at level 0 and returns exactly one solution, which has no rows.
C20_Empty ==
    /\ Running /\ n = 0 =>
          Top.k = 0 /\ Top.pc = "entry" /\ MatrixHead(Cur) = Nil /\ o = <<>>
    /\ mode = "idle" /\ n = 0 /\ calls = 1 => err = "ok" /\ ret = << <<>> >>

\* C20 witness: the first Solve on a zero-value matrix has returned.
C20_Witness ==
    /\ Returned /\ n = 0 /\ calls = 1
    /\ right[H] = Nil
    /\ Len(ret) = 1

====
